---- MODULE Spec2Model ----
(***************************************************************************)
(* secure-wipe: the overwrite engine (src/wipe.rs) and its algorithm       *)
(* catalogue (src/algorithms.rs) as a state machine.  One session is       *)
(* followed from WipeContext::new through wipe() and every wipe_pass().    *)
(* Bytes are integers 0..255, the target and the write buffer are          *)
(* sequences of bytes, offsets are 0-based as in the code.                 *)
(***************************************************************************)
EXTENDS Integers, Sequences, FiniteSets, TLC

\* ------------------------------------------------------------------ bounds
\* Largest explicit buffer size (in KB) a caller passes.
MaxBufKB == 1
\* Largest pass count a caller passes (used by Custom only).
MaxPasses == 2
\* A target of a few bytes, and the remainder left for a pass's last write.
SmallSize == 5
\* The write loop of a pass with a zero-length buffer never ends; the model
\* follows it for this many iterations (a pass that ends needs at most 3).
MaxWritesPerPass == 4

\* ------------------------------------------------------- program constants
\* WipeContext::new: vec![0u8; optimal_buffer_size * 1024]
BytesPerKB == 1024
\* args.rs: default_value_t = 1024, the "no explicit size" sentinel
DefaultBufferKB == 1024

Min(a, b) == IF a < b THEN a ELSE b
Max(a, b) == IF a > b THEN a ELSE b

Algorithms == {"Zero", "Random", "Dod5220", "Gutmann", "Custom"}

\* The result of a failed memory lookup (get_available_memory_kb() = None).
NoMemory == -1

\* --------------------------------------------------------- algorithms.rs
GUTMANN_PATTERNS ==
    << <<0>>, <<255>>, <<85>>, <<170>>,
       <<146, 73, 36>>, <<73, 36, 146>>, <<36, 146, 73>>,
       <<0, 0, 0>>, <<17, 17, 17>>, <<34, 34, 34>>, <<51, 51, 51>>,
       <<68, 68, 68>>, <<85, 85, 85>>, <<102, 102, 102>>, <<119, 119, 119>>,
       <<136, 136, 136>>, <<153, 153, 153>>, <<170, 170, 170>>,
       <<187, 187, 187>>, <<204, 204, 204>>, <<221, 221, 221>>,
       <<238, 238, 238>>, <<255, 255, 255>>,
       <<146, 73, 36>>, <<73, 36, 146>>, <<36, 146, 73>>,
       <<109, 182, 219>>, <<182, 219, 109>>, <<219, 109, 182>> >>

\* Mutant: Random takes the caller's pass count.
pass_count_random_uses_custom(alg, custom_passes) ==
    CASE alg = "Zero" -> 1
      [] alg = "Random" -> custom_passes
      [] alg = "Dod5220" -> 3
      [] alg = "Gutmann" -> 35
      [] alg = "Custom" -> custom_passes

\* Mutant: Custom runs one pass more than asked for.
pass_count_custom_off_by_one(alg, custom_passes) ==
    CASE alg \in {"Zero", "Random"} -> 1
      [] alg = "Dod5220" -> 3
      [] alg = "Gutmann" -> 35
      [] alg = "Custom" -> custom_passes + 1

get_algorithm_pass_count(alg, custom_passes) ==
    CASE alg \in {"Zero", "Random"} -> 1
      [] alg = "Dod5220" -> 3
      [] alg = "Gutmann" -> 35
      [] alg = "Custom" -> custom_passes

\* enum WipePattern { Fixed(u8), Random, Gutmann(Vec<Vec<u8>>) }
Fixed(b) == [kind |-> "Fixed", byte |-> b, patterns |-> <<>>]
Random == [kind |-> "Random", byte |-> 0, patterns |-> <<>>]
Gutmann(patterns) == [kind |-> "Gutmann", byte |-> 0, patterns |-> patterns]
\* The unreachable!() arm of Dod5220: the call panics.
Unreachable == [kind |-> "Unreachable", byte |-> 0, patterns |-> <<>>]

\* Mutant: the two fixed passes of Dod5220 are swapped.
pass_pattern_dod_swapped(alg, p) ==
    CASE alg = "Zero" -> Fixed(0)
      [] alg = "Random" -> Random
      [] alg = "Dod5220" ->
           CASE p = 1 -> Fixed(255)
             [] p = 2 -> Fixed(0)
             [] p = 3 -> Random
             [] OTHER -> Unreachable
      [] alg = "Gutmann" -> Gutmann(GUTMANN_PATTERNS)
      [] alg = "Custom" -> Random

get_pass_pattern(alg, p) ==
    CASE alg = "Zero" -> Fixed(0)
      [] alg = "Random" -> Random
      [] alg = "Dod5220" ->
           CASE p = 1 -> Fixed(0)
             [] p = 2 -> Fixed(255)
             [] p = 3 -> Random
             [] OTHER -> Unreachable
      [] alg = "Gutmann" -> Gutmann(GUTMANN_PATTERNS)
      [] alg = "Custom" -> Random

get_pattern_name(alg, p) ==
    CASE alg = "Zero" -> "0x00"
      [] alg = "Random" -> "RAND"
      [] alg = "Dod5220" ->
           CASE p = 1 -> "0x00" [] p = 2 -> "0xFF" [] p = 3 -> "RAND"
             [] OTHER -> "????"
      [] alg = "Gutmann" -> "GUTM"
      [] alg = "Custom" -> "RAND"

\* ---------------------------------------------------------------- wipe.rs
\* Mutant: the heuristic has no floor.
optimal_buffer_size_no_floor(is_blk, requested_size, available_kb) ==
    IF requested_size # DefaultBufferKB THEN requested_size
    ELSE LET system_memory_kb ==
                 IF available_kb = NoMemory THEN 8 * 1024 * 1024
                 ELSE available_kb
         IN  IF is_blk
             THEN Min(64 * 1024, system_memory_kb \div 50)
             ELSE Min(32 * 1024, system_memory_kb \div 100)

get_optimal_buffer_size(is_blk, requested_size, available_kb) ==
    IF requested_size # DefaultBufferKB THEN requested_size
    ELSE LET system_memory_kb ==
                 IF available_kb = NoMemory THEN 8 * 1024 * 1024
                 ELSE available_kb
         IN  IF is_blk
             THEN Max(8 * 1024, Min(64 * 1024, system_memory_kb \div 50))
             ELSE Max(4 * 1024, Min(32 * 1024, system_memory_kb \div 100))

\* Slice.fill(byte) over a buffer of length n.
FillByte(n, b) == [i \in 1..n |-> b]

\* Mutant: the table is indexed by the pass number itself.
pattern_idx_from_pass(p, patterns) == p % Len(patterns)

\* wipe_pass: pattern_idx = (pass - 1) % patterns.len()
GutmannPatternIdx(p, patterns) == (p - 1) % Len(patterns)

\* wipe_pass: *byte = patterns[pattern_idx][i % len] for the i-th buffer byte
\* (i from 0); a one-byte entry is written with fill(), which is the same.
FillCyclic(n, entry) == [i \in 1..n |-> entry[((i - 1) % Len(entry)) + 1]]

\* The outcomes of one random fill that are followed: every byte drawn is
\* 0x00 (seed 0), and a sequence of varied bytes (seed 1).
RandomOutcomes == {0, 1}

\* thread_rng().fill_bytes(&mut buf[..n]): one outcome per seed; seed 0 is
\* the outcome in which every byte drawn is 0x00.
RandomBytes(seed, n) == [i \in 1..n |-> (seed * (37 + 91 * i)) % 256]

\* Mutant: every write is a whole buffer.
write_size_whole_buffer(buf_len, sz, written) == buf_len

\* write_size = min(write_buffer.len(), size - total_written)
WriteSize(buf_len, sz, written) == Min(buf_len, sz - written)

\* Mutant: the target is opened in append mode.
write_at_end(f, off, data) == f \o data

\* File::write at offset off (0-based) of the open target.
WriteAt(f, off, data) ==
    SubSeq(f, 1, off) \o data \o SubSeq(f, off + Len(data) + 1, Len(f))

\* write_all that fails may have written a prefix of the slice first.
PartialWrites(n) == {0, n \div 2}

\* What the file or device holds before the session.
InitialContent(n) == [i \in 1..n |-> 1 + (i % 200)]

\* The target sizes tried: empty, smaller than any buffer, two whole
\* 1 KB buffers, and two whole 1 KB buffers and a remainder.
Sizes == {0, SmallSize, 2 * BytesPerKB, 2 * BytesPerKB + SmallSize}


\* The build targets wipe.rs distinguishes with cfg(unix) / cfg(windows).
Platforms == {"unix", "windows"}

\* Mutant: the synchronous-write flag does not look at fast mode.
open_flags_ignore_fast(plat, is_blk, fast) == plat = "unix" /\ is_blk

\* WipeContext::new: whether the target is opened with O_SYNC; the flag is
\* set under cfg(unix) only.
OpenFlags(plat, is_blk, fast) == plat = "unix" /\ is_blk /\ ~fast

\* Mutant: block devices are opened with O_DIRECT.
cache_bypass_block_devices(plat, is_blk, fast) == plat = "unix" /\ is_blk

\* WipeContext::new: whether the target is opened with the cache-bypass
\* flag (O_DIRECT); the options are write(true).read(true) and, at most,
\* custom_flags(O_SYNC): the code only carries a comment considering it.
CacheBypass(plat, is_blk, fast) == FALSE

\* Mutant: the target is opened with truncate(true).
open_truncates(f) == <<>>

\* WipeContext::new: OpenOptions::new().write(true).read(true).open(path),
\* neither create nor truncate: the bytes the opened target holds.
OpenTarget(f) == f

\* Mutant: the pass starts where the previous one left the handle.
seek_stays(p) == p

\* wipe_pass: file.seek(SeekFrom::Start(0)), the handle's new position.
SeekStart(p) == 0

\* Mutant: random bytes are drawn once per pass, for its first write.
regenerate_once_per_pass(pattern, written) ==
    pattern.kind = "Random" /\ written = 0

\* wipe_pass: if matches!(pattern, WipePattern::Random), fill_bytes before
\* the write.
RegenerateBeforeWrite(pattern, written) == pattern.kind = "Random"

\* Mutant: the target is synced in fast mode too.
sync_always(fast) == TRUE

\* wipe_pass: if !self.fast_mode, fsync at the end of the pass.
ShouldSync(fast) == ~fast

\* One call made by the session, in order: op is "seek", "fill", "write" or
\* "sync" (on the target, type its outcome), "event" (one JSON line written
\* by emit_event, type its kind) or "print" (one human-readable line written
\* by println!, type its text).
Call(op, type, p, n) == [op |-> op, type |-> type, pass |-> p, bytes |-> n]
Event(type, p, n) == Call("event", type, p, n)
Println(text) == Call("print", text, 0, 0)

\* Mutant: the pass_complete event is dropped.
pass_complete_dropped(json, p) == <<>>

\* wipe_pass: if self.json_mode, emit PassComplete { pass, total_passes }.
PassCompleteEvents(json, p) ==
    IF json THEN <<Event("pass_complete", p, 0)>> ELSE <<>>

\* ------------------------------------------------------------------- ui.rs
\* A line read from standard input is a sequence of characters.
Whitespace == {" ", "\t", "\r", "\n"}
WIPE == <<"W", "I", "P", "E">>

\* str::trim: the line without its leading and trailing whitespace.
RECURSIVE TrimStart(_)
TrimStart(line) ==
    IF line # <<>> /\ Head(line) \in Whitespace THEN TrimStart(Tail(line))
    ELSE line

RECURSIVE TrimEnd(_)
TrimEnd(line) ==
    IF line # <<>> /\ line[Len(line)] \in Whitespace
    THEN TrimEnd(SubSeq(line, 1, Len(line) - 1))
    ELSE line

Trim(line) == TrimEnd(TrimStart(line))

\* Mutant: every answer confirms.
confirm_wipe_always(line, demo_mode) == TRUE

\* confirm_wipe: Ok(true) in demo mode, else Ok(input.trim() == "WIPE").
ConfirmWipe(line, demo_mode) == demo_mode \/ Trim(line) = WIPE

\* The lines typed at the confirmation prompt that are tried (read_line
\* keeps the line terminator; the empty line is end of input).
Inputs ==
    { <<"W", "I", "P", "E", "\n">>,
      <<" ", "W", "I", "P", "E", "\r", "\n">>,
      <<"w", "i", "p", "e", "\n">>,
      <<"W", "I", "P", "E", "S", "\n">>,
      <<"W", " ", "I", "P", "E", "\n">>,
      <<"y", "\n">>,
      <<"\n">>,
      <<>> }

\* The time one iteration of the write loop takes, in milliseconds: shorter
\* than every progress interval, and as long as the longest.
WriteDurations == {250, 2000}

\* wipe_pass: progress_interval, in milliseconds.
ProgressInterval(fast, json) ==
    IF fast THEN 2000 ELSE IF json THEN 500 ELSE 200

\* Mutant: progress is reported after every write.
progress_every_write(t, last_t, interval) == TRUE

\* wipe_pass: should_update_progress =
\*     now.duration_since(last_progress_time) >= progress_interval
ShouldUpdateProgress(t, last_t, interval) == t - last_t >= interval

\* Mutant: the throughput is the cumulative average of the pass.
progress_cumulative(p, written, last_b, t, last_t) ==
    [op |-> "event", type |-> "progress", pass |-> p, bytes |-> written,
     window_bytes |-> written, window_ms |-> t, at |-> t]

\* wipe_pass: the Progress event emitted at time t (ms since the write loop
\* of the pass began): bytes_written, and the two terms of
\* bytes_per_second, bytes_diff = total_written - last_bytes and
\* elapsed = now - last_progress_time.
ProgressEvent(p, written, last_b, t, last_t) ==
    [op |-> "event", type |-> "progress", pass |-> p, bytes |-> written,
     window_bytes |-> written - last_b, window_ms |-> t - last_t, at |-> t]

VARIABLES
    \* the caller's configuration (main.rs -> WipeContext::new); platform is
    \* the build target, size_explicit whether --buffer-size was given
    algorithm, passes, requested_size, json_mode, fast_mode, is_block_device,
    available_memory_kb, platform, size_explicit,
    \* main.rs: --force, --demo, and the line the user types at the prompt
    force, demo, input,
    \* the target: its bytes, and the open handle's position and flags
    target, file_open, pos, o_sync, o_direct,
    \* WipeContext fields
    size, buffer_size, write_buffer,
    \* wipe() / wipe_pass() locals
    pc, pass, total_passes, total_written,
    \* wipe_pass() locals: the time since the write loop of the pass began
    \* (ms), and last_progress_time (on the same clock) and last_bytes
    now, last_progress_time, last_bytes,
    \* what wipe() returned
    result,
    \* history: the completed writes of the current pass, the write_all and
    \* fsync calls issued so far, passes begun,
    \* Gutmann table entries used, and whether a write has failed
    pass_writes, nwrites, nsyncs, passes_run, pattern_used, write_failed,
    \* history: the calls made since the current pass began (since wipe()
    \* began, before the first pass), in order
    trace

config == <<algorithm, passes, requested_size, json_mode, fast_mode,
            is_block_device, available_memory_kb, platform, size_explicit,
            force, demo, input>>
context == <<size, buffer_size>>
flags == <<o_sync, o_direct>>
clock == <<now, last_progress_time, last_bytes>>
history == <<pass_writes, nwrites, nsyncs, passes_run, pattern_used,
             write_failed>>
vars == <<config, target, file_open, pos, flags, context, write_buffer, pc, pass,
          total_passes, total_written, clock, result, history, trace>>

Pending == [status |-> "pending", error |-> [context |-> ""]]
Ok == [status |-> "ok", error |-> [context |-> ""]]
\* anyhow::Error: the context message and the error it wraps.
Err(ctx, source) == [status |-> "err", error |-> [context |-> ctx, source |-> source]]

\* The pass counts a caller passes with an algorithm (--passes).
PassCounts(alg) == IF alg = "Custom" THEN 0..MaxPasses ELSE {0, MaxPasses}

\* The state before WipeContext::new, but for the caller's configuration.
InitSession ==
    /\ file_open = FALSE
    /\ pos = 0
    /\ o_sync = FALSE
    /\ o_direct = FALSE
    /\ size = 0
    /\ buffer_size = 0
    /\ write_buffer = <<>>
    /\ pass = 0
    /\ total_passes = 0
    /\ total_written = 0
    /\ now = 0
    /\ last_progress_time = 0
    /\ last_bytes = 0
    /\ result = Pending
    /\ pass_writes = <<>>
    /\ nwrites = 0
    /\ nsyncs = 0
    /\ passes_run = <<>>
    /\ pattern_used = <<>>
    /\ write_failed = FALSE
    /\ trace = <<>>

Init ==
    /\ algorithm \in Algorithms
    \* Custom is tried with every pass count, the fixed algorithms with the
    \* smallest and the largest
    /\ passes \in PassCounts(algorithm)
    /\ requested_size \in 0..MaxBufKB
    /\ size_explicit = TRUE
    /\ json_mode \in BOOLEAN
    /\ fast_mode \in BOOLEAN
    /\ is_block_device \in BOOLEAN
    /\ available_memory_kb = NoMemory
    /\ platform = "unix"
    /\ target \in {InitialContent(s) : s \in Sizes}
    \* the confirmation is behind: the run was forced; a demo target is the
    \* empty regular file (demo_size 0)
    /\ force = TRUE
    /\ input = <<>>
    /\ demo \in BOOLEAN
    /\ demo => (target = <<>> /\ ~is_block_device)
    /\ pc = "new"
    /\ InitSession

\* WipeContext::new: open the target read+write (no create, no truncate),
\* choose the buffer size, probe the size, allocate the zeroed buffer.
New ==
    /\ pc = "new"
    /\ \E opened \in BOOLEAN, probed \in BOOLEAN :
         IF ~opened
         THEN /\ pc' = "no_session"
              /\ result' = Err("Failed to open file or device", "io")
              /\ UNCHANGED <<target, file_open, flags, context, write_buffer>>
         ELSE IF ~probed
         THEN \* the handle is dropped when new returns the error
              /\ pc' = "no_session"
              /\ target' = OpenTarget(target)
              /\ result' =
                   IF ~is_block_device
                   THEN Err("Failed to get file metadata", "io")
                   ELSE IF platform = "unix"
                   THEN Err("Failed to get block device size", "none")
                   ELSE Err("Failed to get Windows disk size", "none")
              /\ UNCHANGED <<file_open, flags, context, write_buffer>>
         ELSE /\ pc' = "ready"
              /\ target' = OpenTarget(target)
              /\ file_open' = TRUE
              /\ o_sync' = OpenFlags(platform, is_block_device, fast_mode)
              /\ o_direct' = CacheBypass(platform, is_block_device, fast_mode)
              /\ size' = Len(target')
              /\ buffer_size' = get_optimal_buffer_size(
                     is_block_device, requested_size, available_memory_kb)
              /\ write_buffer' = FillByte(buffer_size' * BytesPerKB, 0)
              /\ UNCHANGED result
    /\ UNCHANGED <<config, pos, pass, total_passes, total_written, clock,
                   history, trace>>

\* wipe(), up to the pass loop: the start event, or the four banner lines.
\* println! panics when the line cannot be written.
WipeStart ==
    /\ pc = "ready"
    /\ total_passes' = get_algorithm_pass_count(algorithm, passes)
    /\ \E stdout_ok \in BOOLEAN :
         IF ~stdout_ok
         THEN pass' = pass /\ pc' = "panicked" /\ trace' = trace
         ELSE /\ trace' =
                   IF json_mode THEN <<Event("start", 0, 0)>>
                   ELSE <<Println("Starting secure wipe"), Println("File size"),
                          Println("Buffer size"), Println("")>>
              /\ IF 1 <= total_passes'
                 THEN pass' = 1 /\ pc' = "pass_start"
                 ELSE pass' = pass /\ pc' = "finish"
    /\ UNCHANGED <<config, target, file_open, pos, flags, context, write_buffer,
                   total_written, clock, result, history>>

\* Mutant: the pre-fill replaces the buffer by one copy of the pattern.
pre_fill_reallocates(buf, pattern, p) ==
    CASE pattern.kind = "Fixed" -> <<pattern.byte>>
      [] pattern.kind = "Gutmann" ->
           pattern.patterns[((p - 1) % Len(pattern.patterns)) + 1]
      [] OTHER -> buf

\* The buffer after the pre-fill of a pass.
PreFill(buf, pattern, p) ==
    CASE pattern.kind = "Fixed" -> FillByte(Len(buf), pattern.byte)
      [] pattern.kind = "Gutmann" ->
           FillCyclic(Len(buf),
               pattern.patterns[GutmannPatternIdx(p, pattern.patterns) + 1])
      [] OTHER -> buf

\* wipe_pass, up to the write loop: seek to 0, fetch the pattern, emit
\* pass_start, pre-fill.
PassStart ==
    /\ pc = "pass_start"
    /\ LET pattern == get_pass_pattern(algorithm, pass) IN
       \E seek_ok \in BOOLEAN, stdout_ok \in BOOLEAN :
         /\ (~seek_ok \/ ~json_mode) => stdout_ok
         /\ IF ~seek_ok
            THEN /\ pc' = "failed"
                 /\ result' = Err("Failed to seek to beginning of file", "io")
                 /\ trace' = <<Call("seek", "failed", pass, 0)>>
                 /\ UNCHANGED <<pos, write_buffer, total_written, clock, history>>
            ELSE IF ~stdout_ok
            THEN /\ pos' = SeekStart(pos)
                 /\ pc' = "panicked"
                 /\ trace' = <<Call("seek", "ok", pass, 0)>>
                 /\ UNCHANGED <<write_buffer, total_written, clock, result, history>>
            ELSE /\ pos' = SeekStart(pos)
                 /\ pc' = IF pattern.kind = "Unreachable" THEN "panicked"
                          ELSE "write_loop"
                 /\ trace' = <<Call("seek", "ok", pass, 0)>> \o
                      (IF json_mode THEN <<Event("pass_start", pass, 0)>>
                       ELSE <<>>)
                 /\ write_buffer' = PreFill(write_buffer, pattern, pass)
                 /\ total_written' = 0
                 /\ now' = 0
                 /\ last_progress_time' = 0
                 /\ last_bytes' = 0
                 /\ pass_writes' = <<>>
                 /\ passes_run' = Append(passes_run, pass)
                 /\ pattern_used' =
                      IF pattern.kind = "Gutmann"
                      THEN Append(pattern_used,
                                  GutmannPatternIdx(pass, pattern.patterns))
                      ELSE pattern_used
                 /\ UNCHANGED <<result, nwrites, nsyncs, write_failed>>
    /\ UNCHANGED <<config, target, file_open, flags, context, pass,
                   total_passes>>

\* Mutant: a failed write ends the pass, and the next one runs.
after_write_error_skips_pass == "pass_done"

\* Mutant: a failed write is retried.
after_write_error_retry == "write_loop"

\* Where wipe_pass goes when write_all fails: the error is returned.
AfterWriteError == "failed"

\* One iteration of the write loop: the random fill, write_all, and, when
\* the progress interval has elapsed, the progress event.  The iteration
\* takes dt ms; in human mode a due update only moves the progress bar, and
\* the writes are followed as taking no time.
WriteStep ==
    /\ pc = "write_loop"
    /\ total_written < size
    /\ Len(pass_writes) < MaxWritesPerPass
    /\ LET pattern == get_pass_pattern(algorithm, pass)
           write_size == WriteSize(Len(write_buffer), size, total_written)
           random == RegenerateBeforeWrite(pattern, total_written)
           fill == IF random THEN <<Call("fill", "random", pass, write_size)>>
                   ELSE <<>>
       IN
       \E seed \in RandomOutcomes, written_ok \in BOOLEAN,
          dt \in WriteDurations \cup {0}, stdout_ok \in BOOLEAN :
         LET due == ShouldUpdateProgress(now + dt, last_progress_time,
                        ProgressInterval(fast_mode, json_mode))
         IN
         /\ (~random) => seed = 0
         /\ (write_size = 0) => written_ok
         /\ dt = 0 <=> (~json_mode \/ ~written_ok)
         /\ (~written_ok \/ ~due) => stdout_ok
         /\ write_buffer' =
              IF random
              THEN RandomBytes(seed, write_size)
                     \o SubSeq(write_buffer, write_size + 1, Len(write_buffer))
              ELSE write_buffer
         /\ IF written_ok
            THEN /\ target' = WriteAt(target, pos,
                                      SubSeq(write_buffer', 1, write_size))
                 /\ pos' = pos + write_size
                 /\ total_written' = total_written + write_size
                 /\ pass_writes' = Append(pass_writes,
                        [offset |-> pos, size |-> write_size, fresh |-> random])
                 /\ nwrites' = nwrites + 1
                 /\ now' = now + dt
                 /\ trace' = trace \o fill
                      \o <<Call("write", "ok", pass, write_size)>>
                      \o (IF due /\ json_mode /\ stdout_ok
                          THEN <<ProgressEvent(pass, total_written',
                                     last_bytes, now', last_progress_time)>>
                          ELSE <<>>)
                 /\ pc' = IF stdout_ok THEN pc ELSE "panicked"
                 /\ IF due /\ stdout_ok
                    THEN /\ last_progress_time' = now'
                         /\ last_bytes' = total_written'
                    ELSE UNCHANGED <<last_progress_time, last_bytes>>
                 /\ UNCHANGED <<result, write_failed>>
            ELSE \E k \in PartialWrites(write_size) :
                 /\ target' = WriteAt(target, pos, SubSeq(write_buffer', 1, k))
                 /\ pos' = pos + k
                 /\ pc' = AfterWriteError
                 /\ result' = IF pc' = "failed"
                              THEN Err("Failed to write data", "io")
                              ELSE result
                 /\ write_failed' = TRUE
                 /\ nwrites' = nwrites + 1
                 /\ trace' = trace \o fill
                      \o <<Call("write", "failed", pass, k)>>
                 /\ UNCHANGED <<total_written, clock, pass_writes>>
    /\ UNCHANGED <<config, file_open, flags, context, pass, total_passes, nsyncs,
                   passes_run, pattern_used>>

\* wipe_pass after the write loop: fsync unless fast mode (its result is
\* not looked at), then the pass_complete event and the pass is complete.
PassEnd ==
    /\ pc = "write_loop"
    /\ ~(total_written < size)
    /\ \E sync_ok \in BOOLEAN, stdout_ok \in BOOLEAN :
         /\ (~ShouldSync(fast_mode)) => sync_ok
         /\ (~json_mode) => stdout_ok
         /\ nsyncs' = IF ShouldSync(fast_mode) THEN nsyncs + 1 ELSE nsyncs
         /\ trace' = trace
              \o (IF ShouldSync(fast_mode)
                  THEN <<Call("sync", IF sync_ok THEN "ok" ELSE "failed",
                              pass, 0)>>
                  ELSE <<>>)
              \o (IF stdout_ok THEN PassCompleteEvents(json_mode, pass)
                  ELSE <<>>)
         /\ pc' = IF stdout_ok THEN "pass_done" ELSE "panicked"
    /\ UNCHANGED <<config, target, file_open, pos, flags, context, write_buffer, pass,
                   total_passes, total_written, clock, result, pass_writes, nwrites,
                   passes_run, pattern_used, write_failed>>

\* Mutant: the pass range excludes total_passes.
has_next_pass_exclusive(p, total) == p + 1 < total

\* wipe(): for pass in 1..=total_passes, after pass p has returned Ok.
HasNextPass(p, total) == p < total

\* wipe(): the for loop advances or ends.
NextPass ==
    /\ pc = "pass_done"
    /\ IF HasNextPass(pass, total_passes)
       THEN pass' = pass + 1 /\ pc' = "pass_start"
       ELSE pass' = pass /\ pc' = "finish"
    /\ UNCHANGED <<config, target, file_open, pos, flags, context, write_buffer,
                   total_passes, total_written, clock, result, history, trace>>

\* wipe() after the pass loop: the complete event, or the summary lines; in
\* human mode setting the terminal colour may fail, and that error is
\* returned; println! panics when the line cannot be written.
Finish ==
    /\ pc = "finish"
    /\ \E stdout \in {"ok", "error", "panic"} :
         /\ json_mode => stdout # "error"
         /\ CASE stdout = "ok" ->
                   /\ pc' = "done"
                   /\ result' = Ok
                   /\ trace' = trace \o
                        (IF json_mode THEN <<Event("complete", 0, 0)>>
                         ELSE <<Println(""),
                                Println("Secure wipe completed successfully!"),
                                Println("Total time"),
                                Println("Average throughput")>>)
              [] stdout = "error" ->
                   /\ pc' = "failed"
                   /\ result' = Err("stdout", "io")
                   /\ trace' = trace \o <<Println("")>>
              [] stdout = "panic" ->
                   /\ pc' = "panicked"
                   /\ result' = result
                   /\ trace' = trace
    /\ UNCHANGED <<config, target, file_open, pos, flags, context, write_buffer, pass,
                   total_passes, total_written, clock, history>>

\* main() after wipe() has returned Ok: the verify notice, and in demo mode
\* the removal of the demo file.
MainExit ==
    /\ pc = "done"
    /\ \E verify \in BOOLEAN :
         /\ trace' = trace
              \o (IF verify
                  THEN <<Println("Verifying wipe..."),
                         Println("Verification not yet implemented")>>
                  ELSE <<>>)
              \o (IF demo THEN <<Println("Demo file cleaned up")>> ELSE <<>>)
    /\ pc' = "exited"
    /\ UNCHANGED <<config, target, file_open, pos, flags, context, write_buffer, pass,
                   total_passes, total_written, clock, result, history>>

Next ==
    \/ New
    \/ WipeStart
    \/ PassStart
    \/ WriteStep
    \/ PassEnd
    \/ NextPass
    \/ Finish
    \/ MainExit

Spec == Init /\ [][Next]_vars

\* --------------------------------------------------- main, from the prompt
InitMain ==
    /\ algorithm \in {"Zero", "Random"}
    /\ passes = 1
    /\ requested_size = 1
    /\ size_explicit = TRUE
    /\ json_mode \in BOOLEAN
    /\ fast_mode = FALSE
    /\ is_block_device = FALSE
    /\ available_memory_kb = NoMemory
    /\ platform = "unix"
    /\ target \in {InitialContent(s) : s \in {0, SmallSize}}
    /\ force \in BOOLEAN
    /\ input \in Inputs
    /\ demo \in BOOLEAN
    /\ demo => target = <<>>
    /\ pc = "main"
    /\ InitSession

\* main: if !args.force && !confirm_wipe(..)? { println!(cancelled);
\* return Ok(()) }.  confirm_wipe prints the warning and the prompt and
\* reads one line; a failure of the terminal or of the read is returned.
Main ==
    /\ pc = "main"
    /\ \E prompt_ok \in BOOLEAN :
         /\ (force \/ demo) => prompt_ok
         /\ IF force \/ demo
            THEN pc' = "new" /\ trace' = trace
            ELSE IF ~prompt_ok
            THEN pc' = "main_failed" /\ trace' = trace
            ELSE LET prompt == <<Println("WARNING"), Println("path"),
                                 Println("This operation CANNOT be undone!"),
                                 Println(""), Println("Type 'WIPE' to confirm: ")>>
                 IN  IF ConfirmWipe(input, demo)
                     THEN pc' = "new" /\ trace' = prompt
                     ELSE /\ pc' = "cancelled"
                          /\ trace' = Append(prompt,
                                 Println("Operation cancelled by user"))
    /\ UNCHANGED <<config, target, file_open, pos, flags, context, write_buffer,
                   pass, total_passes, total_written, clock, result, history>>

NextMain ==
    \/ Main
    \/ New
    \/ WipeStart
    \/ PassStart
    \/ WriteStep
    \/ PassEnd
    \/ NextPass
    \/ Finish
    \/ MainExit

SpecMain == InitMain /\ [][NextMain]_vars

\* ------------------------------------------- WipeContext::new, its choices
\* The buffer sizes (KB) given with --buffer-size, and the available memory
\* (KB) the lookup reports, for which new's choices are computed.
BufferRequests == {0, 1, 512, 1024, 2048}
MemoryChoices == {NoMemory, 102400, 1048576, 16777216}

InitNew ==
    /\ algorithm = "Zero"
    /\ passes = 1
    /\ size_explicit \in BOOLEAN
    \* args.rs: without --buffer-size the value is the default
    /\ requested_size \in
         IF size_explicit THEN BufferRequests ELSE {DefaultBufferKB}
    /\ json_mode = FALSE
    /\ fast_mode \in BOOLEAN
    /\ is_block_device \in BOOLEAN
    /\ available_memory_kb \in MemoryChoices
    /\ platform \in Platforms
    /\ target = <<>>
    /\ force = TRUE
    /\ input = <<>>
    /\ demo = FALSE
    /\ pc = "plan"
    /\ InitSession

\* The open flags and the buffer size WipeContext::new computes for a
\* configuration, without the open and the allocation.
PlanNew ==
    /\ pc = "plan"
    /\ pc' = "planned"
    /\ o_sync' = OpenFlags(platform, is_block_device, fast_mode)
    /\ o_direct' = CacheBypass(platform, is_block_device, fast_mode)
    /\ buffer_size' = get_optimal_buffer_size(
           is_block_device, requested_size, available_memory_kb)
    /\ UNCHANGED <<config, target, file_open, pos, size, write_buffer, pass,
                   total_passes, total_written, clock, result, history, trace>>

NextNew == PlanNew

SpecNew == InitNew /\ [][NextNew]_vars

\* ------------------------------------------------------------------ claims

PassCountTable(alg) ==
    CASE alg = "Zero" -> 1
      [] alg = "Random" -> 1
      [] alg = "Dod5220" -> 3
      [] alg = "Gutmann" -> 35
      [] alg = "Custom" -> passes

AllBytes(f, n, b) == \A i \in 1..n : f[i] = b

RECURSIVE SumSizes(_)
SumSizes(ws) == IF ws = <<>> THEN 0 ELSE ws[1].size + SumSizes(Tail(ws))

\* C1: once wipe() has computed it, total_passes is 1 for Zero and Random,
\* 3 for Dod5220, 35 for Gutmann and the caller's pass count for Custom,
\* whatever pass count the caller gave to the four fixed algorithms; a wipe
\* that completes has begun exactly that many passes.
C1_PassCountTable ==
    /\ pc \notin {"new", "no_session", "ready"}
         => total_passes = PassCountTable(algorithm)
    /\ pc = "done" => Len(passes_run) = PassCountTable(algorithm)

C1_Witness ==
    /\ pc = "done"
    /\ algorithm = "Gutmann"
    /\ passes = 0
    /\ Len(passes_run) = 35

\* C2 (as claimed): with Custom and pass count 0, WipeContext::new returns
\* no session, and the target has not been opened.
C2_CustomZeroRejected ==
    (algorithm = "Custom" /\ passes = 0 /\ pc # "new")
        => (pc = "no_session" /\ result.status = "err" /\ ~file_open)

\* C3: with Custom and pass count 0, no write is ever issued and the
\* target keeps its length and every byte it had before the session.
C3_CustomZeroUntouched ==
    (algorithm = "Custom" /\ passes = 0)
        => (nwrites = 0 /\ target = InitialContent(Len(target))
            /\ (pc # "new" /\ pc # "no_session" => Len(target) = size))

C3_Witness ==
    /\ algorithm = "Custom"
    /\ passes = 0
    /\ pc = "done"
    /\ size > Len(write_buffer)
    /\ Len(write_buffer) > 0

\* C4: when a pass has finished without an I/O error, its write sizes sum
\* to size; every write but the last is a whole buffer; the last is
\* size mod buffer length when that is nonzero and a whole buffer otherwise.
C4_PassWritesSumToSize ==
    pc = "pass_done" =>
        LET n == Len(pass_writes)
            B == Len(write_buffer)
        IN  /\ SumSizes(pass_writes) = size
            /\ \A i \in 1..(n - 1) : pass_writes[i].size = B
            /\ n > 0 =>
                 /\ B > 0
                 /\ pass_writes[n].size =
                      IF size % B # 0 THEN size % B ELSE B

C4_Witness ==
    /\ pc = "pass_done"
    /\ Len(pass_writes) = 3
    /\ pass_writes[3].size = SmallSize
    /\ pass_writes[1].size = BytesPerKB

\* C5: with Dod5220, when pass 1 has completed every byte of the target is
\* 0x00, when pass 2 has completed every byte is 0xFF, and every write of
\* pass 3 hands over bytes drawn by the random generator just before it.
C5_DodPasses ==
    algorithm = "Dod5220" =>
        /\ (pc = "pass_done" /\ pass = 1)
             => (Len(target) = size /\ AllBytes(target, size, 0))
        /\ (pc = "pass_done" /\ pass = 2)
             => (Len(target) = size /\ AllBytes(target, size, 255))
        /\ (pc \in {"write_loop", "pass_done"} /\ pass = 3)
             => /\ get_pass_pattern(algorithm, pass).kind = "Random"
                /\ \A i \in 1..Len(pass_writes) : pass_writes[i].fresh
        /\ (pc = "pass_done" /\ pass = 3) => SumSizes(pass_writes) = size

C5_Witness ==
    /\ algorithm = "Dod5220"
    /\ pc = "pass_done"
    /\ pass = 3
    /\ Len(pass_writes) >= 2
    /\ ~AllBytes(target, size, 0)

\* C6: the Gutmann table has exactly 29 entries; pass p pre-fills the
\* buffer by repeating entry (p - 1) mod 29, so passes p and p + 29 use the
\* same entry for p in 1..6.
C6_GutmannCycle ==
    /\ \A p \in 1..Len(pattern_used) : pattern_used[p] = (p - 1) % 29
    /\ \A p \in 1..6 :
         p + 29 <= Len(pattern_used)
            => /\ pattern_used[p + 29] = pattern_used[p]
               /\ GUTMANN_PATTERNS[pattern_used[p + 29] + 1]
                    = GUTMANN_PATTERNS[p]
    /\ (algorithm = "Gutmann" /\ pc = "write_loop" /\ pass_writes = <<>>)
         => /\ Len(GUTMANN_PATTERNS) = 29
            /\ Len(pattern_used) = pass
            /\ LET entry == GUTMANN_PATTERNS[((pass - 1) % 29) + 1] IN
               \A i \in 1..Len(write_buffer) :
                   write_buffer[i] = entry[((i - 1) % Len(entry)) + 1]

C6_Witness ==
    /\ algorithm = "Gutmann"
    /\ pc = "write_loop"
    /\ pass = 35
    /\ pattern_used[35] = 5
    /\ Len(write_buffer) > 0

\* C7: after a successful wipe() with Zero on a regular file, the file has
\* the length probed at construction and every byte is 0x00.
C7_ZeroWipesFile ==
    (pc = "done" /\ algorithm = "Zero" /\ ~is_block_device)
        => (Len(target) = size /\ AllBytes(target, Len(target), 0))

C7_Witness ==
    /\ pc = "done"
    /\ algorithm = "Zero"
    /\ ~is_block_device
    /\ size = 2 * BytesPerKB + SmallSize
    /\ Len(write_buffer) = BytesPerKB

\* C8: a wipe() that returned success began passes 1, 2, ..., total_passes
\* in that order and no other; when 0 < size <= buffer length every pass
\* issues one write of size bytes, total_passes writes in all.
C8_PassesInOrder ==
    /\ \A i \in 1..Len(passes_run) : passes_run[i] = i
    /\ pc = "done" => Len(passes_run) = total_passes
    /\ (0 < size /\ size <= Len(write_buffer)) =>
         /\ Len(pass_writes) <= 1
         /\ \A i \in 1..Len(pass_writes) : pass_writes[i].size = size
         /\ pc = "pass_done" => Len(pass_writes) = 1
         /\ pc = "done" => nwrites = total_passes

C8_Witness ==
    /\ pc = "done"
    /\ algorithm = "Dod5220"
    /\ size = SmallSize
    /\ nwrites = 3
    /\ passes_run = <<1, 2, 3>>

\* C9: once a write has failed, wipe() has returned an error, and nothing
\* further happens to the target: no write, no sync, no later pass.
C9_WriteFailureAborts ==
    [][ /\ write_failed' => (pc' = "failed" /\ result'.status = "err")
        /\ write_failed =>
             UNCHANGED <<target, pos, nwrites, nsyncs, passes_run, pass>>
      ]_vars

C9_Witness ==
    /\ write_failed
    /\ pc = "failed"
    /\ pass = 2
    /\ total_written > 0
    /\ total_written < size

\* C10 (as claimed): the error returned after a write failure carries the
\* index of the failing pass and the bytes written in it before the failure.
C10_ErrorCarriesPassAndBytes ==
    write_failed =>
        /\ result.status = "err"
        /\ "pass" \in DOMAIN result.error
        /\ "bytes_written" \in DOMAIN result.error
        /\ result.error.pass = pass
        /\ result.error.bytes_written = total_written

\* The calls of the trace that satisfy P.
Calls(op, type) ==
    {i \in 1..Len(trace) : trace[i].op = op /\ trace[i].type = type}

\* C11 (as claimed): when the fsync at the end of a pass has failed, wipe()
\* has returned an error and the pass is not reported complete.
C11_SyncFailureFatal ==
    Calls("sync", "failed") # {}
        => (pc = "failed" /\ result.status = "err"
            /\ Calls("event", "pass_complete") = {})

\* C12: in fast mode no sync is ever performed; otherwise no sync happens
\* while a pass is writing, and a completed pass has performed exactly one
\* sync, after all its writes and before its pass_complete event, so that
\* nsyncs counts the completed passes.
C12_OneSyncPerPass ==
    LET syncs == {i \in 1..Len(trace) : trace[i].op = "sync"} IN
    /\ fast_mode => (nsyncs = 0 /\ syncs = {})
    /\ (~fast_mode /\ pc = "write_loop") => (nsyncs = pass - 1 /\ syncs = {})
    /\ (~fast_mode /\ pc = "pass_done") =>
         /\ nsyncs = pass
         /\ Cardinality(syncs) = 1
         /\ \A i \in syncs : \A j \in 1..Len(trace) :
              /\ trace[j].op = "write" => j < i
              /\ (trace[j].op = "event" /\ trace[j].type = "pass_complete")
                   => i < j

C12_Witness ==
    /\ ~fast_mode
    /\ json_mode
    /\ pc = "pass_done"
    /\ pass = 2
    /\ Len(pass_writes) = 3
    /\ nsyncs = 2

\* C13: in JSON mode a pass that has completed has emitted exactly one
\* pass_complete event, its last output, and a session that has completed
\* has emitted exactly one complete event, its last output, whether or not
\* any progress event was emitted.
C13_CompletionEventsEmitted ==
    json_mode =>
        /\ pc = "pass_done" =>
             /\ Cardinality(Calls("event", "pass_complete")) = 1
             /\ trace[Len(trace)] = Event("pass_complete", pass, 0)
        /\ pc = "done" =>
             /\ Cardinality(Calls("event", "complete")) = 1
             /\ trace[Len(trace)] = Event("complete", 0, 0)
             /\ total_passes > 0 =>
                  trace[Len(trace) - 1] = Event("pass_complete", total_passes, 0)

C13_Witness ==
    /\ json_mode
    /\ pc = "done"
    /\ Len(pass_writes) = 3
    /\ Calls("event", "progress") = {}

\* C14 (as claimed): when the caller gave --buffer-size, the session's
\* buffer size is that value.
C14_ExplicitSizeVerbatim ==
    (pc = "planned" /\ size_explicit) => buffer_size = requested_size

\* C15: WipeContext::new writes nothing and emits nothing; it returns either
\* a session whose size is the target's length, or an error and no session,
\* and for a regular file the only errors are those of the open and of the
\* metadata query; the target's bytes are the same after it.
C15_NewLeavesTargetAlone ==
    [][ pc = "new" =>
          /\ target' = target
          /\ nwrites' = nwrites
          /\ trace' = trace
          /\ pc' \in {"ready", "no_session"}
          /\ pc' = "ready" =>
               (file_open' /\ size' = Len(target) /\ result' = Pending)
          /\ pc' = "no_session" =>
               /\ ~file_open'
               /\ result'.status = "err"
               /\ ~is_block_device =>
                    result'.error.context \in
                        {"Failed to open file or device",
                         "Failed to get file metadata"}
      ]_vars

C15_Witness ==
    /\ pc = "ready"
    /\ ~is_block_device
    /\ size = SmallSize
    /\ target = InitialContent(SmallSize)
    /\ trace = <<>>

\* C16 (as claimed): wipe() fails only when a seek, a write or a sync on
\* the target has failed.  The trace holds the current pass only, so the
\* statement is made of the sessions whose every sync it records (fast
\* mode, or the first pass).
C16_EmissionFailureHarmless ==
    (pc \in {"failed", "panicked"} /\ (fast_mode \/ pass <= 1))
        => \/ write_failed
           \/ Calls("seek", "failed") # {}
           \/ Calls("sync", "failed") # {}

\* C17 (as claimed): in JSON mode every line written to standard output is
\* a JSON event, and in human mode none is.
C17_ModesExclusive ==
    \A i \in 1..Len(trace) :
        /\ json_mode => trace[i].op # "print"
        /\ ~json_mode => trace[i].op # "event"

\* C18: in a pass whose pattern is random, every write is immediately
\* preceded by a random fill, in the same pass, of the slice it hands over.
C18_RandomRegeneratedPerWrite ==
    /\ \A i \in 1..Len(trace) :
         (trace[i].op = "write"
            /\ get_pass_pattern(algorithm, trace[i].pass).kind = "Random")
         => /\ i > 1
            /\ trace[i - 1].op = "fill"
            /\ trace[i - 1].pass = trace[i].pass
            /\ trace[i - 1].bytes >= trace[i].bytes
            /\ trace[i].type = "ok" => trace[i - 1].bytes = trace[i].bytes
    /\ (pc \in {"write_loop", "pass_done"}
          /\ get_pass_pattern(algorithm, pass).kind = "Random")
         => \A k \in 1..Len(pass_writes) : pass_writes[k].fresh

C18_Witness ==
    /\ algorithm = "Custom"
    /\ pc = "pass_done"
    /\ pass = 2
    /\ Len(pass_writes) = 3
    /\ Cardinality(Calls("fill", "random")) = 3

\* C19: the k-th write of a pass starts at the sum of the sizes of the
\* writes before it, the handle stands at the bytes written so far, no
\* write reaches past size, and the target keeps its length.
C19_WritesContiguous ==
    /\ \A k \in 1..Len(pass_writes) :
         /\ pass_writes[k].offset = SumSizes(SubSeq(pass_writes, 1, k - 1))
         /\ pass_writes[k].offset + pass_writes[k].size <= size
    /\ pc \in {"write_loop", "pass_done"} =>
         (pos = total_written /\ total_written = SumSizes(pass_writes))
    /\ pos <= size
    /\ pc \notin {"new", "no_session"} => Len(target) = size

C19_Witness ==
    /\ pc = "pass_done"
    /\ pass = 2
    /\ Len(pass_writes) = 3
    /\ pass_writes[3].offset = 2 * BytesPerKB
    /\ pos = size

IsProgress(c) == c.op = "event" /\ c.type = "progress"
ProgressEvents == SelectSeq(trace, IsProgress)

\* C22: in JSON mode a progress event is emitted only when at least the
\* interval (2 s in fast mode, 500 ms otherwise) has passed since the
\* previous progress event of the pass, or since its write loop began; an
\* iteration that ends with the interval elapsed has emitted one.
C22_ProgressThrottled ==
    json_mode =>
        LET interval == IF fast_mode THEN 2000 ELSE 500
            ev == ProgressEvents
        IN  /\ \A i \in 1..Len(ev) :
                 ev[i].at - (IF i = 1 THEN 0 ELSE ev[i - 1].at) >= interval
            /\ pc \in {"write_loop", "pass_done"} =>
                 now - (IF ev = <<>> THEN 0 ELSE ev[Len(ev)].at) < interval

C22_Witness ==
    /\ json_mode
    /\ ~fast_mode
    /\ pc = "pass_done"
    /\ Len(pass_writes) = 3
    /\ Len(ProgressEvents) = 1
    /\ ProgressEvents[1].at = 500
    /\ now = 750

\* C23: the two terms of the throughput of a progress event are the bytes
\* written since the previous progress event of the pass (since the pass
\* began, for the first) and the time since that event (since the write
\* loop began, for the first).
C23_ThroughputOverWindow ==
    LET ev == ProgressEvents IN
    \A i \in 1..Len(ev) :
        /\ ev[i].window_bytes =
             ev[i].bytes - (IF i = 1 THEN 0 ELSE ev[i - 1].bytes)
        /\ ev[i].window_ms = ev[i].at - (IF i = 1 THEN 0 ELSE ev[i - 1].at)
        /\ ev[i].window_ms > 0

C23_Witness ==
    /\ json_mode
    /\ Len(ProgressEvents) = 2
    /\ ProgressEvents[1].bytes = BytesPerKB
    /\ ProgressEvents[1].at = 2000
    /\ ProgressEvents[2].bytes = 2 * BytesPerKB + SmallSize
    /\ ProgressEvents[2].window_bytes = BytesPerKB + SmallSize
    /\ ProgressEvents[2].window_ms = 2250
    /\ ProgressEvents[2].at = 4250

\* C24 (as claimed): an auto-sized buffer (KB) is at most the available
\* memory / 50 and at least 8 MiB for a block device, at most the available
\* memory / 100 and at least 4 MiB for a regular file, 8 GiB standing for
\* the available memory when the lookup fails.
C24_AutoSizeWithinMemoryShare ==
    (pc = "planned" /\ requested_size = DefaultBufferKB) =>
        LET mem == IF available_memory_kb = NoMemory THEN 8 * 1024 * 1024
                   ELSE available_memory_kb
        IN  IF is_block_device
            THEN buffer_size <= mem \div 50 /\ buffer_size >= 8 * 1024
            ELSE buffer_size <= mem \div 100 /\ buffer_size >= 4 * 1024

\* C24 (amended): an auto-sized buffer (KB) is at least the floor (8 MiB
\* for a block device, 4 MiB for a regular file) and at most the cap
\* (64 MiB, 32 MiB); it is the available memory / 50 (/ 100) when that
\* lies between floor and cap, and the floor when that is smaller, so it
\* exceeds the memory share exactly then; 8 GiB stands for the available
\* memory when the lookup fails.
C24_AutoSizeClamped ==
    (pc = "planned" /\ requested_size = DefaultBufferKB) =>
        LET mem == IF available_memory_kb = NoMemory THEN 8 * 1024 * 1024
                   ELSE available_memory_kb
            floor == IF is_block_device THEN 8 * 1024 ELSE 4 * 1024
            cap == IF is_block_device THEN 64 * 1024 ELSE 32 * 1024
            share == mem \div (IF is_block_device THEN 50 ELSE 100)
        IN  /\ floor <= buffer_size
            /\ buffer_size <= cap
            /\ share < floor => buffer_size = floor
            /\ (floor <= share /\ share <= cap) => buffer_size = share
            /\ share > cap => buffer_size = cap
            /\ buffer_size > share <=> share < floor

C24_Witness ==
    /\ pc = "planned"
    /\ ~size_explicit
    /\ is_block_device
    /\ available_memory_kb = 102400
    /\ buffer_size = 8 * 1024

\* C25: from the moment WipeContext::new has returned, no step changes the
\* length of the write buffer, which is buffer_size * 1024 bytes, nor the
\* buffer size, the probed size, the algorithm or the pass count.
C25_BufferAllocatedOnce ==
    [][ pc # "new" =>
          /\ Len(write_buffer') = Len(write_buffer)
          /\ Len(write_buffer') = buffer_size' * BytesPerKB
          /\ buffer_size' = buffer_size
          /\ size' = size
          /\ algorithm' = algorithm
          /\ passes' = passes
      ]_vars

C25_Witness ==
    /\ pc = "done"
    /\ algorithm = "Gutmann"
    /\ size = 2 * BytesPerKB + SmallSize
    /\ buffer_size = 1
    /\ Len(write_buffer) = BytesPerKB
    /\ nwrites = 35 * 3

\* C26 (as claimed): every iteration of a pass's write loop whose write
\* succeeds advances the bytes written, whatever the target size and the
\* buffer size the session was constructed with.
C26_WriteLoopProgresses ==
    \A k \in 1..Len(pass_writes) : pass_writes[k].size > 0

\* C27 (as claimed): when a Gutmann pass has completed, the byte at every
\* offset o of the target is e[o mod len(e)], e being the table entry of
\* the pass.
C27_GutmannPatternContinuous ==
    (algorithm = "Gutmann" /\ pc = "pass_done") =>
        LET e == GUTMANN_PATTERNS[((pass - 1) % 29) + 1] IN
        \A o \in 0..(size - 1) : target[o + 1] = e[(o % Len(e)) + 1]

\* The JSON events of the trace, in order.
IsEvent(c) == c.op = "event"
Events == SelectSeq(trace, IsEvent)

\* C28 (as claimed): in JSON mode start is the first event; the events of
\* pass p are pass_start(p), progress events of p with strictly increasing
\* bytes_written in 1..size, and pass_complete(p); passes are begun in
\* increasing order; complete is the last event and follows
\* pass_complete(total_passes).
C28_EventsWellNested ==
    json_mode =>
        LET ev == Events IN
        /\ (pc = "pass_start" /\ pass = 1) => ev = <<Event("start", 0, 0)>>
        /\ \A i \in 1..Len(passes_run) : passes_run[i] = i
        /\ pc \in {"write_loop", "pass_done"} =>
             /\ ev # <<>>
             /\ ev[1] = Event("pass_start", pass, 0)
             /\ \A i \in 2..Len(ev) :
                  \/ /\ ev[i].type = "progress"
                     /\ ev[i].pass = pass
                     /\ 0 < ev[i].bytes
                     /\ ev[i].bytes <= size
                     /\ (ev[i - 1].type = "progress")
                          => ev[i - 1].bytes < ev[i].bytes
                  \/ /\ i = Len(ev)
                     /\ pc = "pass_done"
                     /\ ev[i] = Event("pass_complete", pass, 0)
             /\ pc = "pass_done" => ev[Len(ev)].type = "pass_complete"
        /\ pc = "done" =>
             /\ Len(ev) >= 2
             /\ ev[Len(ev)] = Event("complete", 0, 0)
             /\ ev[Len(ev) - 1] = Event("pass_complete", total_passes, 0)

\* C29: once a write has failed, wipe() has returned the error and the
\* output of the pass ends before any pass_complete; no complete event was
\* emitted, and a complete event is emitted only when no write has failed.
C29_NoCompletionAfterWriteFailure ==
    /\ write_failed =>
         /\ pc = "failed"
         /\ trace[Len(trace)].op = "write"
         /\ trace[Len(trace)].type = "failed"
         /\ \A i \in 1..Len(trace) :
              /\ trace[i].pass \in {0, pass}
              /\ trace[i].pass = 0 => trace[i].type = "start"
              /\ trace[i].type \notin {"pass_complete", "complete"}
    /\ Calls("event", "complete") # {} =>
         (~write_failed /\ pc \in {"done", "exited"})

C29_Witness ==
    /\ json_mode
    /\ write_failed
    /\ pc = "failed"
    /\ pass = 2
    /\ Len(pass_writes) = 2
    /\ Len(ProgressEvents) = 1

\* The line is WIPE between leading and trailing whitespace.
TypedWipe ==
    \E i \in 0..Len(input) :
        /\ i + 4 <= Len(input)
        /\ SubSeq(input, i + 1, i + 4) = <<"W", "I", "P", "E">>
        /\ \A j \in 1..i : input[j] \in {" ", "\t", "\r", "\n"}
        /\ \A j \in (i + 5)..Len(input) : input[j] \in {" ", "\t", "\r", "\n"}

\* C30: outside demo mode, a session is constructed, and a byte of the
\* target written, only when the run was forced or the user typed WIPE
\* (whitespace around it aside); a refused confirmation ends main with no
\* session, no write and the target as it was.
C30_NoWriteWithoutConfirmation ==
    /\ (~demo /\ pc \notin {"main", "cancelled", "main_failed"})
         => (force \/ TypedWipe)
    /\ (~demo /\ ~force /\ ~TypedWipe) =>
         /\ pc \in {"main", "cancelled", "main_failed"}
         /\ nwrites = 0
         /\ ~file_open
         /\ target = InitialContent(Len(target))
    /\ pc = "cancelled" =>
         /\ ~force /\ ~demo /\ ~TypedWipe
         /\ result = Pending
         /\ trace[Len(trace)] = Println("Operation cancelled by user")
    /\ pc \in {"main", "cancelled", "main_failed"} =>
         (nwrites = 0 /\ ~file_open /\ target = InitialContent(Len(target)))

C30_Witness ==
    /\ ~force
    /\ ~demo
    /\ input = <<" ", "W", "I", "P", "E", "\r", "\n">>
    /\ pc = "done"
    /\ nwrites = 1
    /\ target # InitialContent(Len(target))

====
